---------------------------- MODULE Spec2Model ----------------------------
(***************************************************************************)
(* KD-tree: geometry utilities (source/kdtree_utils.h), tree nodes         *)
(* (source/kdtree_node.h), and the builder and nearest-neighbour searcher  *)
(* as their design document describes them (their code is not part of the  *)
(* source tree at hand).                                                   *)
(*                                                                         *)
(* Conventions.                                                            *)
(*  - A point is a sequence of coordinates; the C++ axis a (0-based) is    *)
(*    position a + 1 of the sequence.  Point indices are 0-based as in the *)
(*    source: index i is points[i + 1].                                    *)
(*  - Utils::distance returns sqrt(dist2) as a double.  A distance d >= 0  *)
(*    is represented here by its square d * d (an exact integer for        *)
(*    integer coordinates); since squaring is strictly monotone on the     *)
(*    non-negative numbers, every comparison of two distances is the       *)
(*    comparison of their representations.                                 *)
(***************************************************************************)
EXTENDS Integers, Sequences, FiniteSets, TLC

VARIABLES
    points,     \* the caller's point array (Types::Points<T>)
    ret,        \* the last utility call and what it returned
    qp,         \* distance calls: the query point
    sp,         \* distance calls: the stored point
    plane,      \* distance calls: the hyperplane
    dPoint,     \* result of distance(qp, sp)
    dPlane,     \* result of distance(qp, plane)
    work,       \* builder: stack of pending (path, subset) calls
    tree,       \* builder: the node graph built so far, by path from the root
    last,       \* builder: the split made by the last recursive step
    found,      \* searcher: the last query and its answer
    heap        \* KDNode objects by address (0 is the null pointer)

vars == <<points, ret, qp, sp, plane, dPoint, dPlane, work, tree, last, found, heap>>

---------------------------------------------------------------------------
(* Bounds of the model *)

MaxPoints == 3
MaxCoord == 2
MaxNodes == 3

(* Common dimensionality D of the points of a set *)
Dim == 2

(* Sentinels declared in kdtree_constants.h, which is not part of the      *)
(* source tree at hand: each is one fixed value of the result type.        *)
KDTREE_EMPTY_SET_VARIANCE == -1
KDTREE_INVALID_DISTANCE == -1
KDTREE_NONLEAF_INDEX == -1
KDTREE_UNINITIALIZED_HYPERPLANE_INDEX == -2

Coords == 0..MaxCoord
Point == [1..Dim -> Coords]
ShortPoint == [1..(Dim - 1) -> Coords]
PointSets == UNION {[1..n -> Point] : n \in 0..MaxPoints}

Abs(x) == IF x < 0 THEN -x ELSE x

---------------------------------------------------------------------------
(* Utils::minMaxPerAxis *)

RECURSIVE minMaxFlippedScan(_, _, _)
minMaxFlippedScan(pts, k, acc) ==
    IF k > Len(pts) THEN acc
    ELSE minMaxFlippedScan(pts, k + 1,
            [i \in 1..Len(acc) |->
                << IF acc[i][1] > pts[k][i] THEN pts[k][i] ELSE acc[i][1],
                   IF acc[i][2] > pts[k][i] THEN pts[k][i] ELSE acc[i][2] >>])

minMaxPerAxisFlipped(pts) ==
    IF Len(pts) = 0 THEN << >>
    ELSE minMaxFlippedScan(pts, 2, [i \in 1..Len(pts[1]) |-> <<pts[1][i], pts[1][i]>>])

\* the loop of lines 149-163: one pass over the points after the first
RECURSIVE minMaxScan(_, _, _)
minMaxScan(pts, k, acc) ==
    IF k > Len(pts) THEN acc
    ELSE minMaxScan(pts, k + 1,
            [i \in 1..Len(acc) |->
                << IF acc[i][1] > pts[k][i] THEN pts[k][i] ELSE acc[i][1],
                   IF acc[i][2] < pts[k][i] THEN pts[k][i] ELSE acc[i][2] >>])

minMaxPerAxis(pts) ==
    IF Len(pts) = 0 THEN << >>
    ELSE minMaxScan(pts, 2, [i \in 1..Len(pts[1]) |-> <<pts[1][i], pts[1][i]>>])

---------------------------------------------------------------------------
(* Utils::axisOfHighestVariance *)

\* the loop of lines 77-86; i and axis are 0-based
RECURSIVE varianceScan(_, _, _, _)
varianceScan(mm, i, axis, largestVariance) ==
    IF i >= Len(mm) THEN axis
    ELSE LET curr == Abs(mm[i + 1][2] - mm[i + 1][1])
         IN  IF curr > largestVariance
             THEN varianceScan(mm, i + 1, i, curr)
             ELSE varianceScan(mm, i + 1, axis, largestVariance)

RECURSIVE varianceScanLastWins(_, _, _, _)
varianceScanLastWins(mm, i, axis, largestVariance) ==
    IF i >= Len(mm) THEN axis
    ELSE LET curr == Abs(mm[i + 1][2] - mm[i + 1][1])
         IN  IF curr >= largestVariance
             THEN varianceScanLastWins(mm, i + 1, i, curr)
             ELSE varianceScanLastWins(mm, i + 1, axis, largestVariance)

axisOfHighestVarianceLastWins(pts) ==
    IF Len(pts) = 0 THEN KDTREE_EMPTY_SET_VARIANCE
    ELSE LET axisMinMax == minMaxPerAxis(pts)
         IN  varianceScanLastWins(axisMinMax, 1, 0, Abs(axisMinMax[1][2] - axisMinMax[1][1]))

axisOfHighestVariance(pts) ==
    IF Len(pts) = 0 THEN KDTREE_EMPTY_SET_VARIANCE
    ELSE LET axisMinMax == minMaxPerAxis(pts)
         IN  varianceScan(axisMinMax, 1, 0, Abs(axisMinMax[1][2] - axisMinMax[1][1]))

---------------------------------------------------------------------------
(* Utils::medianValueInAxis *)

\* std::nth_element( begin, begin + n, end ): afterwards position n holds the
\* element a full sort would put there.  Modelled by an insertion sort.
RECURSIVE insertInOrder(_, _)
insertInOrder(sorted, v) ==
    IF Len(sorted) = 0 THEN <<v>>
    ELSE IF v <= Head(sorted) THEN <<v>> \o sorted
    ELSE <<Head(sorted)>> \o insertInOrder(Tail(sorted), v)

RECURSIVE sortValues(_)
sortValues(values) ==
    IF Len(values) = 0 THEN << >>
    ELSE insertInOrder(sortValues(Tail(values)), Head(values))

nth_element(values, n) == sortValues(values)[n + 1]

medianValueInAxisLower(pts, axis) ==
    IF Len(pts) = 0 THEN KDTREE_EMPTY_SET_VARIANCE
    ELSE IF \E k \in 1..Len(pts) : Len(pts[k]) <= axis
    THEN KDTREE_EMPTY_SET_VARIANCE
    ELSE LET values == [k \in 1..Len(pts) |-> pts[k][axis + 1]]
             n == (Len(values) - 1) \div 2
         IN  nth_element(values, n)

medianValueInAxis(pts, axis) ==
    IF Len(pts) = 0 THEN KDTREE_EMPTY_SET_VARIANCE
    ELSE IF \E k \in 1..Len(pts) : Len(pts[k]) <= axis
    THEN KDTREE_EMPTY_SET_VARIANCE
    ELSE LET values == [k \in 1..Len(pts) |-> pts[k][axis + 1]]
             n == Len(values) \div 2
         IN  nth_element(values, n)

---------------------------------------------------------------------------
(* Utils::distance, both overloads *)

RECURSIVE sumSquares(_, _, _)
sumSquares(p1, p2, k) ==
    IF k > Len(p1) \/ k > Len(p2) THEN 0
    ELSE (p1[k] - p2[k]) * (p1[k] - p2[k]) + sumSquares(p1, p2, k + 1)

distanceSkipFirst(p1, p2) ==
    IF Len(p1) # Len(p2) THEN KDTREE_INVALID_DISTANCE
    ELSE sumSquares(p1, p2, 2)

\* the square of the value returned (see the conventions above)
distance(p1, p2) ==
    IF Len(p1) # Len(p2) THEN KDTREE_INVALID_DISTANCE
    ELSE sumSquares(p1, p2, 1)

\* the square of the value returned
distancePlane(p, h) ==
    IF Len(p) <= h.hyperplaneIndex THEN KDTREE_INVALID_DISTANCE
    ELSE Abs(p[h.hyperplaneIndex + 1] - h.value) * Abs(p[h.hyperplaneIndex + 1] - h.value)

---------------------------------------------------------------------------
(* Tree Builder (design document, section 4.2) *)

\* "not found": the searcher's outcome on an empty tree
NotFound == -1

\* the points of the index subset S, in the order of S
pointsIn(pts, S) == [k \in 1..Len(S) |-> pts[S[k] + 1]]

\* 4.2 steps 2-3 without the degenerate-partition guard of step 4
splitNoFallback(pts, S) ==
    LET sub == pointsIn(pts, S)
        axis == axisOfHighestVariance(sub)
        m == medianValueInAxis(sub, axis)
        InLeft(i) == pts[i + 1][axis + 1] <= m
        InRight(i) == ~InLeft(i)
        rawLeft == SelectSeq(S, InLeft)
        rawRight == SelectSeq(S, InRight)
    IN  [axis |-> axis, m |-> m, rawLeft |-> rawLeft, rawRight |-> rawRight,
         fallback |-> FALSE, left |-> rawLeft, right |-> rawRight]

\* 4.2 steps 2-4 on a subset S with |S| >= 2: axis, median, the partition by
\* coordinate <= median, and the positional split (first half / second half
\* of S in input order) when that partition leaves one side empty
split(pts, S) ==
    LET sub == pointsIn(pts, S)
        axis == axisOfHighestVariance(sub)
        m == medianValueInAxis(sub, axis)
        InLeft(i) == pts[i + 1][axis + 1] <= m
        InRight(i) == ~InLeft(i)
        rawLeft == SelectSeq(S, InLeft)
        rawRight == SelectSeq(S, InRight)
        degenerate == Len(rawLeft) = 0 \/ Len(rawRight) = 0
        half == Len(S) \div 2
    IN  [axis |-> axis, m |-> m, rawLeft |-> rawLeft, rawRight |-> rawRight,
         fallback |-> degenerate,
         left |-> IF degenerate THEN SubSeq(S, 1, half) ELSE rawLeft,
         right |-> IF degenerate THEN SubSeq(S, half + 1, Len(S)) ELSE rawRight]

NoStep ==
    [kind |-> "none", S |-> << >>, axis |-> 0, m |-> 0, rawLeft |-> << >>,
     rawRight |-> << >>, fallback |-> FALSE, left |-> << >>, right |-> << >>]

\* build(points, indices): the call on the full index set
rootCall(pts) == << [path |-> << >>, S |-> [k \in 1..Len(pts) |-> k - 1]] >>

\* 4.2 step 1: |S| = 1 produces a leaf
BuildLeaf ==
    /\ Len(work) > 0
    /\ Len(Head(work).S) = 1
    /\ tree' = tree @@ (Head(work).path :> [kind |-> "Leaf", pointIndex |-> Head(work).S[1]])
    /\ work' = Tail(work)
    /\ last' = [NoStep EXCEPT !.kind = "Leaf", !.S = Head(work).S]
    /\ UNCHANGED <<points, ret, qp, sp, plane, dPoint, dPlane, found, heap>>

\* 4.2 steps 2-5: an interior node and the two recursive calls (left first)
BuildInterior ==
    /\ Len(work) > 0
    /\ Len(Head(work).S) # 1
    /\ \E call \in {Head(work)} : \E s \in {split(points, call.S)} :
           /\ tree' = tree @@ (call.path :>
                         [kind |-> "Interior",
                          hyperplane |-> [hyperplaneIndex |-> s.axis, value |-> s.m]])
           /\ work' = << [path |-> call.path \o <<0>>, S |-> s.left],
                         [path |-> call.path \o <<1>>, S |-> s.right] >> \o Tail(work)
           /\ last' = [kind |-> "Interior", S |-> call.S, axis |-> s.axis, m |-> s.m,
                       rawLeft |-> s.rawLeft, rawRight |-> s.rawRight,
                       fallback |-> s.fallback, left |-> s.left, right |-> s.right]
    /\ UNCHANGED <<points, ret, qp, sp, plane, dPoint, dPlane, found, heap>>

---------------------------------------------------------------------------
(* Nearest-Neighbor Searcher (design document, section 4.3) *)

\* steps 1-3 on the subtree at path: near side first, then the far side when
\* the hyperplane distance is strictly less than the best distance so far
RECURSIVE searchFrom(_, _, _, _, _)
searchFrom(t, pts, path, q, best) ==
    LET node == t[path]
    IN  IF node.kind = "Leaf"
        THEN LET d == distance(q, pts[node.pointIndex + 1])
             IN  IF best.index = NotFound \/ d < best.dist
                 THEN [index |-> node.pointIndex, dist |-> d]
                 ELSE best
        ELSE LET goLeft == q[node.hyperplane.hyperplaneIndex + 1] <= node.hyperplane.value
                 near == path \o (IF goLeft THEN <<0>> ELSE <<1>>)
                 far == path \o (IF goLeft THEN <<1>> ELSE <<0>>)
                 b1 == searchFrom(t, pts, near, q, best)
                 hd == distancePlane(q, node.hyperplane)
             IN  IF b1.index = NotFound \/ hd < b1.dist
                 THEN searchFrom(t, pts, far, q, b1)
                 ELSE b1

nearest(t, pts, q) ==
    IF Len(q) # Dim THEN [outcome |-> "dimension mismatch", index |-> NotFound]
    ELSE [outcome |-> "ok",
          index |-> searchFrom(t, pts, << >>, q, [index |-> NotFound, dist |-> 0]).index]

NoFound == [set |-> FALSE, q |-> << >>, outcome |-> "none", index |-> NotFound]

\* one query against the completed tree
Search ==
    /\ Len(work) = 0
    /\ << >> \in DOMAIN tree
    /\ ~found.set
    /\ \E q \in Point \cup ShortPoint :
          LET r == nearest(tree, points, q)
          IN  found' = [set |-> TRUE, q |-> q, outcome |-> r.outcome, index |-> r.index]
    /\ UNCHANGED <<points, ret, qp, sp, plane, dPoint, dPlane, work, tree, last, heap>>

---------------------------------------------------------------------------
(* Calls of the geometry utilities *)

NoRet == [fn |-> "none", axis |-> 0, val |-> 0]
Unset == [set |-> FALSE, val |-> 0]
NoPlane == [hyperplaneIndex |-> 0, value |-> 0]

CallMinMaxPerAxis ==
    /\ ret' = [fn |-> "minMaxPerAxis", axis |-> 0, val |-> minMaxPerAxis(points)]
    /\ UNCHANGED <<points, qp, sp, plane, dPoint, dPlane, work, tree, last, found, heap>>

CallAxisOfHighestVariance ==
    /\ ret' = [fn |-> "axisOfHighestVariance", axis |-> 0,
               val |-> axisOfHighestVariance(points)]
    /\ UNCHANGED <<points, qp, sp, plane, dPoint, dPlane, work, tree, last, found, heap>>

\* the axis ranges over the valid axes and the first invalid one
CallMedianValueInAxis ==
    /\ \E axis \in 0..Dim :
          ret' = [fn |-> "medianValueInAxis", axis |-> axis,
                  val |-> medianValueInAxis(points, axis)]
    /\ UNCHANGED <<points, qp, sp, plane, dPoint, dPlane, work, tree, last, found, heap>>

CallDistancePoints ==
    /\ dPoint' = [set |-> TRUE, val |-> distance(qp, sp)]
    /\ UNCHANGED <<points, ret, qp, sp, plane, dPlane, work, tree, last, found, heap>>

CallDistancePlane ==
    /\ dPlane' = [set |-> TRUE, val |-> distancePlane(qp, plane)]
    /\ UNCHANGED <<points, ret, qp, sp, plane, dPoint, work, tree, last, found, heap>>

---------------------------------------------------------------------------
(* Specifications *)

Free == [used |-> FALSE]
EmptyHeap == [a \in 1..MaxNodes |-> Free]

\* the utilities applied to every point set within the bounds
Init ==
    /\ points \in PointSets
    /\ ret = NoRet
    /\ qp = << >> /\ sp = << >> /\ plane = NoPlane
    /\ dPoint = Unset /\ dPlane = Unset
    /\ work = << >> /\ tree = << >> /\ last = NoStep /\ found = NoFound
    /\ heap = EmptyHeap

Next == CallMinMaxPerAxis \/ CallAxisOfHighestVariance \/ CallMedianValueInAxis

Spec == Init /\ [][Next]_vars

\* the two distance overloads on every query point, stored point and hyperplane
DistInit ==
    /\ points = << >>
    /\ ret = NoRet
    /\ qp \in Point \cup ShortPoint
    /\ sp \in Point
    /\ plane \in [hyperplaneIndex : 0..(Dim - 1), value : Coords]
    /\ dPoint = Unset /\ dPlane = Unset
    /\ work = << >> /\ tree = << >> /\ last = NoStep /\ found = NoFound
    /\ heap = EmptyHeap

DistNext == CallDistancePoints \/ CallDistancePlane

DistSpec == DistInit /\ [][DistNext]_vars

\* the builder on every non-empty point set within the bounds
BuildInit ==
    /\ points \in PointSets \ {<< >>}
    /\ ret = NoRet
    /\ qp = << >> /\ sp = << >> /\ plane = NoPlane
    /\ dPoint = Unset /\ dPlane = Unset
    /\ work = rootCall(points) /\ tree = << >> /\ last = NoStep /\ found = NoFound
    /\ heap = EmptyHeap

BuildNext == BuildLeaf \/ BuildInterior

BuildSpec == BuildInit /\ [][BuildNext]_vars

\* the builder, then one query against the tree it built
SearchNext == BuildLeaf \/ BuildInterior \/ Search

SearchSpec == BuildInit /\ [][SearchNext]_vars

---------------------------------------------------------------------------
(* Properties of the geometry utilities *)

SetMax(S) == CHOOSE x \in S : \A y \in S : y <= x
SetMin(S) == CHOOSE x \in S : \A y \in S : x <= y

\* the coordinates of the points on the 0-based axis a
AxisValues(pts, a) == {pts[k][a + 1] : k \in 1..Len(pts)}
Spread(pts, a) == SetMax(AxisValues(pts, a)) - SetMin(AxisValues(pts, a))

\* the 0-based j-th smallest coordinate on axis a, by counting: the value
\* with at most j coordinates strictly below it and more than j at or below it
OrderStat(pts, a, j) ==
    CHOOSE v \in AxisValues(pts, a) :
        /\ Cardinality({k \in 1..Len(pts) : pts[k][a + 1] < v}) <= j
        /\ Cardinality({k \in 1..Len(pts) : pts[k][a + 1] <= v}) > j

MedianCall == ret.fn = "medianValueInAxis"
ValidMedianCall == MedianCall /\ Len(points) > 0 /\ ret.axis < Dim

\* C2 (as amended): for a non-empty point set and axis < D, medianValueInAxis
\* returns the element at 0-based position floor(n/2) of the sorted coordinate
\* values, and for even n that element is the UPPER of the two middle values
\* (never an average of the two).
C2_UpperMedian ==
    ValidMedianCall =>
        LET n == Len(points)
        IN  /\ ret.val = OrderStat(points, ret.axis, n \div 2)
            /\ n % 2 = 0 =>
                 /\ ret.val >= OrderStat(points, ret.axis, n \div 2 - 1)
                 /\ ret.val \in { OrderStat(points, ret.axis, n \div 2 - 1),
                                  OrderStat(points, ret.axis, n \div 2) }

\* C2 as stated: the returned value is the element at position floor(n/2) of
\* the sorted values and is the LOWER of the two middle values when n is even.
C2_LowerMedian ==
    ValidMedianCall =>
        LET n == Len(points)
        IN  /\ ret.val = OrderStat(points, ret.axis, n \div 2)
            /\ n % 2 = 0 => ret.val = OrderStat(points, ret.axis, n \div 2 - 1)

\* an even number of points whose two middle values differ
C2_Witness ==
    /\ ValidMedianCall
    /\ Len(points) % 2 = 0
    /\ OrderStat(points, ret.axis, Len(points) \div 2 - 1)
         < OrderStat(points, ret.axis, Len(points) \div 2)
    /\ ret.val = OrderStat(points, ret.axis, Len(points) \div 2)

\* C3: for a non-empty point set axisOfHighestVariance returns an axis a < D
\* whose spread max - min is the greatest over all axes, and the lowest such
\* axis when several share the greatest spread.
C3_HighestVarianceLowestAxis ==
    (ret.fn = "axisOfHighestVariance" /\ Len(points) > 0) =>
        /\ ret.val \in 0..(Dim - 1)
        /\ \A b \in 0..(Dim - 1) :
              /\ Spread(points, b) <= Spread(points, ret.val)
              /\ b < ret.val => Spread(points, b) < Spread(points, ret.val)

\* two axes tie on a positive greatest spread, and the lower one is returned
C3_Witness ==
    /\ ret.fn = "axisOfHighestVariance"
    /\ Len(points) > 1
    /\ Spread(points, 0) > 0
    /\ \A b \in 0..(Dim - 1) : Spread(points, b) <= Spread(points, 0)
    /\ \E b \in 1..(Dim - 1) : Spread(points, b) = Spread(points, 0)
    /\ ret.val = 0

\* the values medianValueInAxis can return as a valid median within the bounds
ValidMedians == Coords

\* C6: medianValueInAxis reports "invalid axis" when axis >= D and "empty set"
\* when points is empty, and each of the two outcomes is distinguishable from
\* the other and from every value returned as a valid median.
C6_FailuresDistinguishable ==
    MedianCall =>
        /\ (Len(points) > 0 /\ ret.axis >= Dim) =>
               /\ ret.val # medianValueInAxis(<< >>, ret.axis)
               /\ ret.val \notin ValidMedians
        /\ Len(points) = 0 => ret.val \notin ValidMedians

\* C7: minMaxPerAxis returns the empty sequence for an empty input, and for a
\* non-empty set exactly D pairs (min, max), pair a bounding every point's
\* coordinate on axis a, with min and max both attained by input points.
C7_MinMaxPerAxis ==
    ret.fn = "minMaxPerAxis" =>
        IF Len(points) = 0 THEN ret.val = << >>
        ELSE /\ Len(ret.val) = Dim
             /\ \A a \in 1..Dim :
                   /\ \A k \in 1..Len(points) :
                         ret.val[a][1] <= points[k][a] /\ points[k][a] <= ret.val[a][2]
                   /\ \E k \in 1..Len(points) : points[k][a] = ret.val[a][1]
                   /\ \E k \in 1..Len(points) : points[k][a] = ret.val[a][2]

\* the first point is strictly inside the range of axis 0, so both extrema
\* were replaced during the pass
C7_Witness ==
    /\ ret.fn = "minMaxPerAxis"
    /\ Len(points) >= 3
    /\ ret.val[1][1] < points[1][1]
    /\ points[1][1] < ret.val[1][2]

---------------------------------------------------------------------------
(* Properties of the distances *)

SameDimensionality == Len(qp) = Len(sp) /\ Len(qp) > plane.hyperplaneIndex

\* qp and sp lie on opposite sides of the hyperplane
OppositeSides ==
    LET a == plane.hyperplaneIndex + 1
    IN  \/ qp[a] <= plane.value /\ plane.value < sp[a]
        \/ sp[a] <= plane.value /\ plane.value < qp[a]

\* the squares of the distances between two points within the bounds
BestValues == 0..(Dim * MaxCoord * MaxCoord)

\* C10: for a hyperplane h, a query point q and a stored point p of the same
\* dimensionality on the opposite side of h from q, distance(q, h) <=
\* distance(q, p); so whenever distance(q, h) is not strictly less than the
\* current best, p is not strictly closer than the current best.
C10_PruningLowerBound ==
    (dPoint.set /\ dPlane.set /\ SameDimensionality /\ OppositeSides) =>
        /\ dPlane.val <= dPoint.val
        /\ \A best \in BestValues : ~(dPlane.val < best) => ~(dPoint.val < best)

\* opposite sides, the hyperplane distance positive and strictly below the
\* distance between the two points
C10_Witness ==
    /\ dPoint.set /\ dPlane.set /\ SameDimensionality /\ OppositeSides
    /\ dPlane.val > 0
    /\ dPlane.val < dPoint.val

---------------------------------------------------------------------------
(* Properties of the builder *)

SeqSet(s) == {s[k] : k \in 1..Len(s)}

\* the coordinates of the subset on the chosen axis are pairwise distinct
DistinctOnAxis(S, a) ==
    \A i, j \in 1..Len(S) : i # j => points[S[i] + 1][a + 1] # points[S[j] + 1][a + 1]

BalanceCase ==
    /\ last.kind = "Interior"
    /\ Len(last.S) >= 2
    /\ DistinctOnAxis(last.S, last.axis)

\* C4 (as amended): for a subset S with |S| >= 2 and pairwise distinct
\* coordinates on the chosen axis, Sleft = {i : coordinate <= m} has
\* floor(|S|/2) + 1 elements and Sright the rest, so the sizes differ by 1
\* when |S| is odd and by 2 when |S| is even: by at most 2.
C4_BalanceWithinTwo ==
    BalanceCase =>
        LET n == Len(last.S)
            l == Len(last.rawLeft)
            r == Len(last.rawRight)
        IN  /\ l = n \div 2 + 1
            /\ r = n - l
            /\ l - r = (IF n % 2 = 0 THEN 2 ELSE 1)

\* C4 as stated: the two sizes differ by at most 1
C4_BalanceWithinOne ==
    BalanceCase => Abs(Len(last.rawLeft) - Len(last.rawRight)) <= 1

\* an even subset with distinct coordinates on the chosen axis
C4_Witness ==
    /\ BalanceCase
    /\ Len(last.S) % 2 = 0
    /\ Len(last.rawLeft) = Len(last.rawRight) + 2

RECURSIVE pendingNodes(_)
pendingNodes(w) ==
    IF Len(w) = 0 THEN 0 ELSE 2 * Len(Head(w).S) - 1 + pendingNodes(Tail(w))

Leaves == {p \in DOMAIN tree : tree[p].kind = "Leaf"}

\* C5: each recursive step on a subset S with |S| >= 2 hands two non-empty,
\* disjoint subsets whose union is S to the recursive calls (the positional
\* split exactly when the <= median partition leaves one side empty); the
\* nodes built plus the nodes the pending calls will still build are always
\* 2n - 1, so build ends after 2n - 1 steps; and when it has ended every input
\* index is in exactly one leaf.
C5_BuilderProgress ==
    /\ last.kind = "Interior" =>
          /\ Len(last.S) >= 2
          /\ Len(last.left) > 0 /\ Len(last.right) > 0
          /\ SeqSet(last.left) \cap SeqSet(last.right) = {}
          /\ SeqSet(last.left) \cup SeqSet(last.right) = SeqSet(last.S)
          /\ Len(last.left) + Len(last.right) = Len(last.S)
          /\ last.fallback <=> (Len(last.rawLeft) = 0 \/ Len(last.rawRight) = 0)
    /\ \A k \in 1..Len(work) : Len(work[k].S) > 0
    /\ Cardinality(DOMAIN tree) + pendingNodes(work) = 2 * Len(points) - 1
    /\ Len(work) = 0 =>
          \A i \in 0..(Len(points) - 1) :
              Cardinality({p \in Leaves : tree[p].pointIndex = i}) = 1

\* build has ended on three or more points that are all identical
C5_Witness ==
    /\ Len(work) = 0
    /\ Len(points) >= 3
    /\ \A k \in 1..Len(points) : points[k] = points[1]
    /\ Cardinality(Leaves) = Len(points)

---------------------------------------------------------------------------
(* Properties of the searcher *)

\* C1: nearest(t, q) on the tree built from P returns an index i with
\* distance(q, P[i]) minimal over all points of P, as a linear scan does.
C1_Exactness ==
    (found.set /\ found.outcome = "ok") =>
        /\ found.index \in 0..(Len(points) - 1)
        /\ \A j \in 1..Len(points) :
              distance(found.q, points[found.index + 1]) <= distance(found.q, points[j])

---------------------------------------------------------------------------
(* KDNode (source/kdtree_node.h) *)
(* Every node lives at an address of the heap; a std::shared_ptr< KDNode >  *)
(* is an address, 0 the null pointer.  The caller keeps a pointer to every  *)
(* node it made, so no node is destroyed.                                   *)

NULL == 0
NodeValues == 0..1
NodeLeafIndices == {KDTREE_NONLEAF_INDEX, 0}

Used == {a \in 1..MaxNodes : heap[a].used}
Unused == {a \in 1..MaxNodes : ~heap[a].used}
NewAddress == CHOOSE a \in Unused : \A b \in Unused : a <= b

\* KDNode::copy: the five members of other, the two pointers included
copy(other) ==
    [used |-> TRUE,
     hyperplaneIndex |-> other.hyperplaneIndex,
     value |-> other.value,
     left |-> other.left,
     right |-> other.right,
     leafIndex |-> other.leafIndex]

\* KDNode(): m_value is left uninitialized
DefaultConstruct ==
    /\ Unused # {}
    /\ \E v \in NodeValues :
          heap' = [heap EXCEPT ![NewAddress] =
                      [used |-> TRUE,
                       hyperplaneIndex |-> KDTREE_UNINITIALIZED_HYPERPLANE_INDEX,
                       value |-> v, left |-> NULL, right |-> NULL,
                       leafIndex |-> KDTREE_NONLEAF_INDEX]]
    /\ UNCHANGED <<points, ret, qp, sp, plane, dPoint, dPlane, work, tree, last, found>>

\* KDNode( hyperplaneIndex, value, left, right, leafIndex )
Construct ==
    /\ Unused # {}
    /\ \E h \in 0..(Dim - 1), v \in NodeValues, l \in Used \cup {NULL},
          r \in Used \cup {NULL}, leafIndex \in NodeLeafIndices :
          heap' = [heap EXCEPT ![NewAddress] =
                      [used |-> TRUE, hyperplaneIndex |-> h, value |-> v,
                       left |-> l, right |-> r, leafIndex |-> leafIndex]]
    /\ UNCHANGED <<points, ret, qp, sp, plane, dPoint, dPlane, work, tree, last, found>>

\* KDNode( const KDNode& other )
CopyConstruct ==
    /\ Unused # {}
    /\ \E o \in Used : heap' = [heap EXCEPT ![NewAddress] = copy(heap[o])]
    /\ UNCHANGED <<points, ret, qp, sp, plane, dPoint, dPlane, work, tree, last, found>>

\* operator=( const KDNode& other )
Assign ==
    /\ \E a \in Used, o \in Used : heap' = [heap EXCEPT ![a] = copy(heap[o])]
    /\ UNCHANGED <<points, ret, qp, sp, plane, dPoint, dPlane, work, tree, last, found>>

\* a.copy( other )
Copy ==
    /\ \E a \in Used, o \in Used : heap' = [heap EXCEPT ![a] = copy(heap[o])]
    /\ UNCHANGED <<points, ret, qp, sp, plane, dPoint, dPlane, work, tree, last, found>>

NodeInit ==
    /\ points = << >>
    /\ ret = NoRet
    /\ qp = << >> /\ sp = << >> /\ plane = NoPlane
    /\ dPoint = Unset /\ dPlane = Unset
    /\ work = << >> /\ tree = << >> /\ last = NoStep /\ found = NoFound
    /\ heap = EmptyHeap

NodeNext == DefaultConstruct \/ Construct \/ CopyConstruct \/ Assign \/ Copy

NodeSpec == NodeInit /\ [][NodeNext]_vars

\* C8: every node is a leaf (a point index, both children null) or an
\* interior node (leafIndex is KDTREE_NONLEAF_INDEX); none has a point index
\* together with a non-null child.
C8_NodeShape ==
    \A a \in Used :
        \/ heap[a].leafIndex = KDTREE_NONLEAF_INDEX
        \/ heap[a].left = NULL /\ heap[a].right = NULL

\* the (parent, side) pairs that refer to node c
Referrers(c) ==
    {<<a, "left">> : a \in {b \in Used : heap[b].left = c}}
        \cup {<<a, "right">> : a \in {b \in Used : heap[b].right = c}}

Children(a) == {heap[a].left, heap[a].right} \ {NULL}

RECURSIVE Descendants(_, _)
Descendants(S, n) ==
    IF n = 0 THEN {}
    ELSE LET kids == UNION {Children(a) : a \in S}
         IN  kids \cup Descendants(kids, n - 1)

\* C9: every node is referenced as left or right by at most one node, and no
\* node is reachable from itself.
C9_ExclusiveOwnership ==
    \A c \in Used :
        /\ Cardinality(Referrers(c)) <= 1
        /\ c \notin Descendants({c}, MaxNodes)

===========================================================================
